---- MODULE Spec2Model ----
(***************************************************************************)
(* Model of lambda/app.py: the Shopify webhook handler.  One invocation of *)
(* lambda_handler is a run of the state machine below; the pure helpers    *)
(* (verify_shopify_signature, forward_to_maistro, the standard-library     *)
(* conversions they call) are operators.                                   *)
(*                                                                         *)
(* Python values are records tagged by type (field t).  A str carries its  *)
(* kind k: "chars" (a sequence of characters; in a header name a run of    *)
(* caseless characters is one element), "const" (a literal of the          *)
(* program), "b64" (the base64 text of an HMAC digest), "json" (the text   *)
(* json.dumps produced), "exc" (str(e) of an exception).  bytes are        *)
(* sequences of integers 0..255.                                           *)
(*                                                                         *)
(* The outbound request is the Request handed to urlopen; what urllib and  *)
(* the network do with it is the outcome net of that one call.             *)
(***************************************************************************)
EXTENDS Integers, Sequences, FiniteSets, TLC

(* ------------------------------------------------------------------ *)
(* Python values                                                       *)
(* ------------------------------------------------------------------ *)
Absent == [t |-> "absent"]
None == [t |-> "none"]
Chars(s) == [t |-> "str", k |-> "chars", v |-> s]
Const(s) == [t |-> "str", k |-> "const", v |-> s]
Bool(b) == [t |-> "bool", v |-> b]
Dict(items) == [t |-> "dict", v |-> items]

Ok(v) == [ok |-> TRUE, v |-> v]
Raise(e) == [ok |-> FALSE, exc |-> e]

IsStr(x) == x.t = "str"

\* a == b on two Python values that are both str
StrEq(a, b) == a.k = b.k /\ a.v = b.v

\* bool(x): None, "", False and {} are falsy
Truthy(x) ==
  CASE x.t = "none" -> FALSE
    [] x.t = "absent" -> FALSE
    [] x.t = "bool" -> x.v
    [] x.t = "dict" -> Len(x.v) > 0
    [] x.t = "str" -> IF x.k = "chars" THEN Len(x.v) > 0 ELSE TRUE
    [] OTHER -> TRUE

(* ------------------------------------------------------------------ *)
(* Characters and encodings                                            *)
(* ------------------------------------------------------------------ *)
UpperLetters == <<"A", "B", "C", "D", "E", "F", "G", "H", "I", "J", "K", "L", "M", "N", "O", "P", "Q", "R", "S", "T", "U", "V", "W", "X", "Y", "Z">>
LowerLetters == <<"a", "b", "c", "d", "e", "f", "g", "h", "i", "j", "k", "l", "m", "n", "o", "p", "q", "r", "s", "t", "u", "v", "w", "x", "y", "z">>
B64Alphabet == <<"A", "B", "C", "D", "E", "F", "G", "H", "I", "J", "K", "L", "M", "N", "O", "P", "Q", "R", "S", "T", "U", "V", "W", "X", "Y", "Z", "a", "b", "c", "d", "e", "f", "g", "h", "i", "j", "k", "l", "m", "n", "o", "p", "q", "r", "s", "t", "u", "v", "w", "x", "y", "z", "0", "1", "2", "3", "4", "5", "6", "7", "8", "9", "+", "/">>
\* the printable ASCII characters, code points 32..126 in order (the double
\* quote, the backslash and the backtick by name)
AsciiPrintable == <<" ", "!", "QUOTE", "#", "$", "%", "&", "'", "(", ")", "*", "+", ",", "-", ".", "/", "0", "1", "2", "3", "4", "5", "6", "7", "8", "9", ":", ";", "<", "=", ">", "?", "@", "A", "B", "C", "D", "E", "F", "G", "H", "I", "J", "K", "L", "M", "N", "O", "P", "Q", "R", "S", "T", "U", "V", "W", "X", "Y", "Z", "[", "BACKSLASH", "]", "^", "_", "BACKTICK", "a", "b", "c", "d", "e", "f", "g", "h", "i", "j", "k", "l", "m", "n", "o", "p", "q", "r", "s", "t", "u", "v", "w", "x", "y", "z", "{", "|", "}", "~">>

\* a non-ASCII character (U+00E9) and a lone surrogate (U+D800)
EAcute == "U+00E9"
Surrogate == "U+D800"

IndexOf(seq, c) == CHOOSE i \in 1..Len(seq) : seq[i] = c
Occurs(seq, c) == \E i \in 1..Len(seq) : seq[i] = c

IsAsciiChar(c) == Occurs(AsciiPrintable, c)
IsAsciiText(s) == \A i \in 1..Len(s) : IsAsciiChar(s[i])

\* str.isascii() of a Python str
IsAscii(x) == IF x.k = "chars" THEN IsAsciiText(x.v) ELSE TRUE

\* str.lower() on one character
LowerChar(c) == IF Occurs(UpperLetters, c) THEN LowerLetters[IndexOf(UpperLetters, c)] ELSE c

\* k.lower() on a key of the header mapping
Lower(x) == Chars([i \in 1..Len(x.v) |-> LowerChar(x.v[i])])

\* the UTF-8 bytes of one character; <<>> marks a character that cannot be encoded
Utf8OfChar(c) ==
  CASE IsAsciiChar(c) -> <<31 + IndexOf(AsciiPrintable, c)>>
    [] c = EAcute -> <<195, 169>>
    [] OTHER -> <<>>

RECURSIVE Utf8Bytes(_)
Utf8Bytes(s) == IF s = <<>> THEN <<>> ELSE Utf8OfChar(Head(s)) \o Utf8Bytes(Tail(s))

\* s.encode(utf-8): raises on None (no such attribute) and on lone surrogates
Utf8Encode(x) ==
  IF x.t # "str" THEN Raise("AttributeError")
  ELSE IF x.k # "chars" THEN Raise("Unmodelled")
  ELSE IF \E i \in 1..Len(x.v) : Utf8OfChar(x.v[i]) = <<>> THEN Raise("UnicodeEncodeError")
  ELSE Ok(Utf8Bytes(x.v))

\* binascii.a2b_base64 in its default (non-strict) mode: characters outside the
\* alphabet are skipped, a completed pad sequence ends the input, and input
\* that ends inside a quad is an error.  <<-1>> marks the error.
RECURSIVE B64Loop(_, _, _, _, _, _)
B64Loop(s, i, quad_pos, leftchar, pads, out) ==
  IF i > Len(s) THEN (IF quad_pos # 0 THEN <<-1>> ELSE out)
  ELSE IF s[i] = "=" THEN
    (IF quad_pos >= 2 /\ quad_pos + pads + 1 >= 4 THEN out
     ELSE B64Loop(s, i + 1, quad_pos, leftchar, IF quad_pos >= 2 THEN pads + 1 ELSE pads, out))
  ELSE IF ~Occurs(B64Alphabet, s[i]) THEN B64Loop(s, i + 1, quad_pos, leftchar, pads, out)
  ELSE LET this_ch == IndexOf(B64Alphabet, s[i]) - 1 IN
    CASE quad_pos = 0 -> B64Loop(s, i + 1, 1, this_ch, 0, out)
      [] quad_pos = 1 -> B64Loop(s, i + 1, 2, this_ch % 16, 0, Append(out, leftchar * 4 + this_ch \div 16))
      [] quad_pos = 2 -> B64Loop(s, i + 1, 3, this_ch % 4, 0, Append(out, leftchar * 16 + this_ch \div 4))
      [] OTHER -> B64Loop(s, i + 1, 0, 0, 0, Append(out, leftchar * 64 + this_ch))

\* base64.b64decode(body)
B64Decode(x) ==
  IF x.t # "str" THEN Raise("TypeError")
  ELSE IF x.k # "chars" THEN Raise("Unmodelled")
  ELSE IF ~IsAsciiText(x.v) THEN Raise("ValueError")
  ELSE LET r == B64Loop(x.v, 1, 0, 0, 0, <<>>) IN
       IF r = <<-1>> THEN Raise("binascii.Error") ELSE Ok(r)

(* ------------------------------------------------------------------ *)
(* Dictionaries (ordered sequences of <<key, value>>, keys distinct)   *)
(* ------------------------------------------------------------------ *)
HasKey(items, k) == \E i \in 1..Len(items) : StrEq(items[i][1], k)
KeyIndex(items, k) == CHOOSE i \in 1..Len(items) : StrEq(items[i][1], k)

\* d[k] = v: a new key goes last, an existing key keeps its place and takes v
DictSet(items, k, v) ==
  IF HasKey(items, k) THEN [items EXCEPT ![KeyIndex(items, k)] = <<k, v>>]
  ELSE Append(items, <<k, v>>)

\* d.get(k, default)
DictGet(d, k, default) == IF HasKey(d.v, k) THEN d.v[KeyIndex(d.v, k)][2] ELSE default

\* event.get(field, default): the event is a record whose missing keys are Absent
EventGet(ev, field, default) == IF ev[field].t = "absent" THEN default ELSE ev[field]

\* os.environ.get(name) and os.environ.get(name, default)
EnvGet(environ, name, default) == IF environ[name].t = "absent" THEN default ELSE environ[name]

\* (variant: the keys are kept as they come)
RECURSIVE LowerItems_KeepCase(_, _)
LowerItems_KeepCase(items, acc) ==
  IF items = <<>> THEN acc
  ELSE LowerItems_KeepCase(Tail(items), DictSet(acc, Head(items)[1], Head(items)[2]))

\* {k.lower(): v for k, v in headers.items()}
RECURSIVE LowerItems(_, _)
LowerItems(items, acc) ==
  IF items = <<>> THEN acc
  ELSE LowerItems(Tail(items), DictSet(acc, Lower(Head(items)[1]), Head(items)[2]))

HeadersLower(headers) ==
  IF headers.t = "dict" THEN Ok(Dict(LowerItems(headers.v, <<>>)))
  ELSE Raise("AttributeError")

\* json.dumps(obj)
JsonDumps(obj) == [t |-> "str", k |-> "json", v |-> obj]

(* ------------------------------------------------------------------ *)
(* verify_shopify_signature                                            *)
(* ------------------------------------------------------------------ *)
\* hmac.new(key, data, hashlib.sha256).digest(): HMAC-SHA256 as an abstract
\* keyed function, one digest per (key, message)
HmacSha256(key, data) == [key |-> key, msg |-> data]

\* base64.b64encode(digest).decode(utf-8)
B64EncodeStr(digest) == [t |-> "str", k |-> "b64", v |-> digest]

\* hmac.compare_digest(a, b) with a a str: b must be a str too, both ASCII
CompareDigest(a, b) ==
  IF ~IsStr(b) THEN Raise("TypeError")
  ELSE IF ~IsAscii(a) \/ ~IsAscii(b) THEN Raise("TypeError")
  ELSE Ok(StrEq(a, b))

\* the body of the try block
VerifyTry(data, hmac_header, secret) ==
  LET key == Utf8Encode(secret) IN
  IF ~key.ok THEN Raise(key.exc)
  ELSE LET computed_hmac == HmacSha256(key.v, data)
           computed_hmac_b64 == B64EncodeStr(computed_hmac)
       IN CompareDigest(computed_hmac_b64, hmac_header)

\* (variant: no except clause)
verify_shopify_signature_NoCatch(data, hmac_header, secret) ==
  VerifyTry(data, hmac_header, secret)

verify_shopify_signature(data, hmac_header, secret) ==
  LET r == VerifyTry(data, hmac_header, secret) IN
  IF r.ok THEN Ok(r.v) ELSE Ok(FALSE)

(* ------------------------------------------------------------------ *)
(* forward_to_maistro                                                  *)
(* ------------------------------------------------------------------ *)
\* What the network and the downstream service do with the one request:
\*   kind "response"    urlopen returns a response with a 2xx status
\*   kind "http_error"  urlopen raises HTTPError (a completed exchange, not 2xx)
\*   kind "url_error"   urlopen raises URLError (the request was never sent:
\*                      DNS, TCP, TLS, or the timeout while connecting)
\*   kind "os_error"    urlopen raises an OSError that is no URLError (the
\*                      timeout while waiting for the response, or the peer
\*                      closing the connection without one)
\* read says what reading and decoding the body does: "ok", "timeout",
\* "incomplete" or "undecodable"; fp is HTTPError.fp being set.
NoText == Chars(<<>>)
OkText == Chars(<<"o", "k">>)
DownText == Chars(<<"d", "o", "w", "n">>)
Reads == {"ok", "timeout", "incomplete", "undecodable"}
Net(kind, status, fp, read, text, why) ==
  [kind |-> kind, status |-> status, fp |-> fp, read |-> read, text |-> text, why |-> why]
NetOutcomes ==
  {Net("response", s, TRUE, r, IF r = "ok" THEN OkText ELSE NoText, "none") :
     s \in {200, 299}, r \in Reads}
  \cup {Net("http_error", s, TRUE, r, IF r = "ok" THEN DownText ELSE NoText, "none") :
     s \in {300, 503}, r \in Reads}
  \cup {Net("http_error", s, FALSE, "ok", NoText, "none") : s \in {300, 503}}
  \cup {Net("url_error", 0, FALSE, "ok", NoText, w) :
     w \in {"dns", "refused", "connect_timeout"}}
  \cup {Net("os_error", 0, FALSE, "ok", NoText, w) :
     w \in {"response_timeout", "remote_disconnected"}}

\* the exception a failing read() or decode() raises
ReadExc(read) ==
  CASE read = "timeout" -> "TimeoutError"
    [] read = "incomplete" -> "IncompleteRead"
    [] OTHER -> "UnicodeDecodeError"

\* str(e)
StrOfExc(e) == [t |-> "str", k |-> "exc", v |-> e]

\* the url and the headers of the request
MaistroUrl(instance_id) ==
  [prefix |-> "https://api-usw.neuralseek.com/v1/", instance_id |-> instance_id, suffix |-> "/maistro"]
MaistroHeaders(api_key, override_agent, debug) ==
  [ContentType |-> Const("application/json"), apikey |-> api_key,
   overrideschema |-> Const("true"), overrideagent |-> override_agent, debug |-> debug]

\* urllib.request.Request(url, data=payload, headers=headers, method=POST)
MaistroRequest(payload, api_key, override_agent, debug, instance_id) ==
  [url |-> MaistroUrl(instance_id), data |-> payload,
   headers |-> MaistroHeaders(api_key, override_agent, debug),
   method |-> "POST", timeout |-> 25]

\* the with block: status and decoded body of a 2xx response
ReadResponse(net) ==
  IF net.read = "ok" THEN Ok(<<net.status, net.text>>) ELSE Raise(ReadExc(net.read))

\* except HTTPError: the body comes from e.read().decode(utf-8) when e.fp is
\* set, from str(e) otherwise; what is raised here leaves the function
HandleHTTPError(net) ==
  IF ~net.fp THEN Ok(<<net.status, StrOfExc([name |-> "HTTPError", code |-> net.status])>>)
  ELSE IF net.read = "ok" THEN Ok(<<net.status, net.text>>)
  ELSE Raise(ReadExc(net.read))

\* except URLError
HandleURLError(net) ==
  Ok(<<502, JsonDumps([error |-> Const("Failed to connect to Maistro API")])>>)

\* except Exception
HandleException(e) == Ok(<<500, JsonDumps([error |-> StrOfExc(e)])>>)

\* The result of the call for the outcome net of its one urlopen:
\* Ok(<<status_code, response_body>>) or the exception that leaves it.
forward_to_maistro(payload, api_key, override_agent, debug, instance_id, net) ==
  CASE net.kind = "response" ->
         (LET r == ReadResponse(net) IN IF r.ok THEN r ELSE HandleException(r.exc))
    [] net.kind = "http_error" -> HandleHTTPError(net)
    [] net.kind = "url_error" -> HandleURLError(net)
    [] OTHER ->
         HandleException(IF net.why = "response_timeout" THEN "TimeoutError" ELSE "RemoteDisconnected")

(* ------------------------------------------------------------------ *)
(* Inputs: the environment and the inbound events                      *)
(* ------------------------------------------------------------------ *)
MaxHeaders == 2

\* x-shopify-hmac-sha256, x-shopify-topic and x-shopify-shop-domain, each in
\* lowercase and as X-Shopify-Hmac-SHA256, X-Shopify-Topic and
\* X-Shopify-Shop-Domain.  The letters whose case differs stand alone; a run
\* of characters between them (which lower() leaves as it is) is one element.
SigLower == <<"x", "-", "s", "hopify-", "h", "mac-", "s", "h", "a", "256">>
SigTitle == <<"X", "-", "S", "hopify-", "H", "mac-", "S", "H", "A", "256">>
TopicLower == <<"x", "-", "s", "hopify-", "t", "opic">>
TopicTitle == <<"X", "-", "S", "hopify-", "T", "opic">>
ShopLower == <<"x", "-", "s", "hopify-", "s", "hop-", "d", "omain">>
ShopTitle == <<"X", "-", "S", "hopify-", "S", "hop-", "D", "omain">>

\* the keys lambda_handler looks up
SigKey == Chars(SigLower)
TopicKey == Chars(TopicLower)
ShopKey == Chars(ShopLower)

Secret1 == Chars(<<"k", "1">>)
Secret2 == Chars(<<"k", "2">>)
SecretBad == Chars(<<Surrogate>>)
ApiKey == Chars(<<"a", "p", "i">>)
InstanceId == Chars(<<"i", "d">>)
Agent == Chars(<<"a", "g">>)
DebugOn == Chars(<<"t", "r", "u", "e">>)

\* the payload b"A" and the signature a sender holding secret computes for a payload
PayloadA == <<65>>
DigestStr(secret, payload) == B64EncodeStr(HmacSha256(Utf8Bytes(secret.v), payload))

\* every combination of the three required values, the optional pair left
\* out, and every passing combination once more with the optional pair set
Environments ==
  {e \in [SHOPIFY_SECRET : {Absent, Chars(<<>>), Secret1, SecretBad},
          MAISTRO_API_KEY : {Absent, ApiKey},
          MAISTRO_INSTANCE_ID : {Absent, Chars(<<>>), InstanceId},
          MAISTRO_OVERRIDE_AGENT : {Absent, Agent},
          MAISTRO_DEBUG : {Absent, DebugOn}] :
     /\ e.MAISTRO_OVERRIDE_AGENT.t = e.MAISTRO_DEBUG.t
     /\ e.MAISTRO_DEBUG.t = "str" =>
          Truthy(e.SHOPIFY_SECRET) /\ Truthy(e.MAISTRO_API_KEY) /\ e.MAISTRO_INSTANCE_ID # Chars(<<>>)}

\* the environments of the redelivery runs: the secret left out, set, or
\* one that cannot be encoded; the rest set, the optional pair left out
EnvironmentsRedeliver ==
  {e \in Environments :
     /\ e.SHOPIFY_SECRET # Chars(<<>>)
     /\ e.MAISTRO_API_KEY.t = "str" /\ Truthy(e.MAISTRO_INSTANCE_ID) /\ e.MAISTRO_DEBUG.t = "absent"}

SigValues == {Chars(<<>>), DigestStr(Secret1, PayloadA), DigestStr(Secret2, PayloadA)}
HeaderItems ==
  {<<Chars(n), v>> : n \in {SigLower, SigTitle}, v \in SigValues}
  \cup {<<Chars(n), Chars(<<"o", "r", "d", "e", "r", "s">>)>> : n \in {TopicLower, TopicTitle}}
  \cup {<<Chars(n), Chars(<<"s", "h", "o", "p">>)>> : n \in {ShopLower, ShopTitle}}

\* a header mapping has each name once
DistinctKeys(items) ==
  \A i, j \in 1..Len(items) : i # j => ~StrEq(items[i][1], items[j][1])
HeaderDicts ==
  {Dict(items) : items \in {f \in UNION {[1..n -> HeaderItems] : n \in 0..MaxHeaders} : DistinctKeys(f)}}

Bodies ==
  {Absent, None, Chars(<<"A">>), Chars(<<"Q", "Q", "=", "=">>), Chars(<<"Q", "!", "Q", "=", "=">>),
   Chars(<<EAcute>>), Chars(<<Surrogate>>)}

Events ==
  [headers : {Absent, None} \cup HeaderDicts,
   body : Bodies,
   isBase64Encoded : {Absent, Bool(FALSE), Bool(TRUE)}]

\* the events of the redelivery runs: the flag set or left out, the body a
\* text that decodes one way or the other, or null
EventsRedeliver ==
  {ev \in Events :
     /\ ev.isBase64Encoded # Bool(FALSE)
     /\ ev.body \in {None, Chars(<<"A">>), Chars(<<"Q", "Q", "=", "=">>)}}

\* the direct calls of verify_shopify_signature
Payloads == {<<>>, PayloadA, <<81, 81, 61, 61>>, <<195, 169>>}
VerifySecrets == {Chars(<<>>), Secret1, Secret2, SecretBad}
VerifyHeaders ==
  {DigestStr(sec, p) : sec \in {Chars(<<>>), Secret1, Secret2}, p \in Payloads}
  \cup {None, Chars(<<>>), Chars(<<EAcute>>), Chars(<<"Q", "Q", "=", "=">>)}

\* the same mapping with its names in another letter-casing
SameUpToCase(h1, h2) ==
  /\ h1.t = "dict" /\ h2.t = "dict"
  /\ Len(h1.v) = Len(h2.v)
  /\ \A i \in 1..Len(h1.v) :
       /\ StrEq(Lower(h1.v[i][1]), Lower(h2.v[i][1]))
       /\ StrEq(h1.v[i][2], h2.v[i][2])

\* the other letter-casing of a header name of the model
OtherCasing(name) ==
  CASE name = SigLower -> SigTitle
    [] name = SigTitle -> SigLower
    [] name = TopicLower -> TopicTitle
    [] name = TopicTitle -> TopicLower
    [] name = ShopLower -> ShopTitle
    [] OTHER -> ShopLower

\* the mapping with the names at the positions in flips in their other casing
Recase(h, flips) ==
  Dict([i \in 1..Len(h.v) |->
         IF i \in flips THEN <<Chars(OtherCasing(h.v[i][1].v)), h.v[i][2]>> ELSE h.v[i]])

(* ------------------------------------------------------------------ *)
(* lambda_handler                                                      *)
(* ------------------------------------------------------------------ *)
Unset == [t |-> "unset"]
Response(status, obj) == [statusCode |-> status, body |-> JsonDumps(obj)]

VARIABLES
  environ,        \* os.environ, once the invocation has read it
  event,          \* the argument of lambda_handler
  pc,             \* where the invocation is
  cfg,            \* the five values read from the environment
  headers_lower,
  hmac_header,
  body_bytes,
  topic,
  shop_domain,
  verify_calls,   \* the calls of verify_shopify_signature, with their results
  net,            \* what the network did with the outbound request
  outbound,       \* the requests handed to urlopen
  fwd,            \* <<status_code, response_body>>
  response,       \* what lambda_handler returned
  exc,            \* the exception that left lambda_handler
  trace,          \* the steps taken so far
  prev,           \* the outcome of the previous delivery
  args            \* the arguments of a direct call of verify_shopify_signature

locals == <<cfg, headers_lower, hmac_header, body_bytes, topic, shop_domain, verify_calls,
            net, outbound, fwd, response, exc, trace>>
vars == <<environ, event, pc, locals, prev, args>>

Fresh ==
  /\ pc = "start"
  /\ cfg = Unset /\ headers_lower = Unset /\ hmac_header = Unset /\ body_bytes = Unset
  /\ topic = Unset /\ shop_domain = Unset /\ verify_calls = <<>>
  /\ net = Unset /\ outbound = <<>> /\ fwd = Unset /\ response = Unset /\ exc = Unset
  /\ trace = <<>>

Init ==
  /\ environ = Unset
  /\ event \in Events
  /\ Fresh
  /\ prev = Unset
  /\ args = Unset

Return(r) == response' = r /\ pc' = "done"
Propagate(e) == exc' = e /\ pc' = "raised"
Step(name) == trace' = Append(trace, name)

\* lines 109-121: read the configuration, reject an incomplete one
ConfigOf(e) ==
  [shopify_secret |-> EnvGet(e, "SHOPIFY_SECRET", None),
   maistro_api_key |-> EnvGet(e, "MAISTRO_API_KEY", None),
   maistro_instance_id |-> EnvGet(e, "MAISTRO_INSTANCE_ID", Chars(<<"m", "y", "-", "i", "n", "s", "t", "a", "n", "c", "e">>)),
   maistro_override_agent |-> EnvGet(e, "MAISTRO_OVERRIDE_AGENT", Const("test_order_fulfilled")),
   maistro_debug |-> EnvGet(e, "MAISTRO_DEBUG", Const("false"))]

ConfigMissing(c) ==
  ~Truthy(c.shopify_secret) \/ ~Truthy(c.maistro_api_key) \/ ~Truthy(c.maistro_instance_id)

LoadConfig ==
  /\ pc = "start"
  /\ args = Unset
  /\ Step("config")
  /\ environ' \in (IF environ = Unset THEN Environments ELSE {environ})
  /\ cfg' = ConfigOf(environ')
  /\ IF ConfigMissing(cfg')
     THEN /\ Return(Response(500, [error |-> Const("Configuration error")]))
          /\ UNCHANGED exc
     ELSE /\ pc' = "headers"
          /\ UNCHANGED <<response, exc>>
  /\ UNCHANGED <<event, headers_lower, hmac_header, body_bytes, topic, shop_domain,
                 verify_calls, net, outbound, fwd, prev, args>>

\* lines 123-135: lower the header names, look the signature up
\* (variant: only the empty string counts as missing)
SignatureMissing_OnlyEmpty(h) == IsStr(h) /\ ~Truthy(h)

\* line 130: if not hmac_header
SignatureMissing(h) == ~Truthy(h)

ExtractHeaders ==
  /\ pc = "headers"
  /\ Step("headers")
  /\ LET hl == HeadersLower(EventGet(event, "headers", Dict(<<>>))) IN
     IF ~hl.ok
     THEN /\ Propagate(hl.exc)
          /\ UNCHANGED <<headers_lower, hmac_header, response>>
     ELSE /\ headers_lower' = hl.v
          /\ hmac_header' = DictGet(hl.v, SigKey, None)
          /\ IF SignatureMissing(hmac_header')
             THEN /\ Return(Response(401, [error |-> Const("Missing signature header")]))
                  /\ UNCHANGED exc
             ELSE /\ pc' = "body"
                  /\ UNCHANGED <<response, exc>>
  /\ UNCHANGED <<environ, event, cfg, body_bytes, topic, shop_domain, verify_calls, net,
                 outbound, fwd, prev, args>>

\* (variant: the flag is ignored)
DecodeOf_IgnoreFlag(ev) == Utf8Encode(EventGet(ev, "body", Chars(<<>>)))

\* lines 137-144: the raw body as bytes
DecodeOf(ev) ==
  LET body == EventGet(ev, "body", Chars(<<>>))
      is_base64 == EventGet(ev, "isBase64Encoded", Bool(FALSE))
  IN IF Truthy(is_base64) THEN B64Decode(body) ELSE Utf8Encode(body)

DecodeBody ==
  /\ pc = "body"
  /\ Step("decode")
  /\ LET r == DecodeOf(event) IN
     IF ~r.ok
     THEN Propagate(r.exc) /\ UNCHANGED body_bytes
     ELSE body_bytes' = r.v /\ pc' = "verify" /\ UNCHANGED exc
  /\ UNCHANGED <<environ, event, cfg, headers_lower, hmac_header, topic, shop_domain,
                 verify_calls, net, outbound, fwd, response, prev, args>>

\* (variant: only a failed call counts as invalid)
SignatureInvalid_OnlyOnError(r) == ~r.ok

\* line 147: if not verify_shopify_signature(...)
SignatureInvalid(r) == ~r.v

\* lines 146-154: verify, reject an invalid signature
VerifySignature ==
  /\ pc = "verify"
  /\ Step("verify")
  /\ LET r == verify_shopify_signature(body_bytes, hmac_header, cfg.shopify_secret) IN
     /\ verify_calls' = Append(verify_calls,
          [data |-> body_bytes, hmac_header |-> hmac_header, secret |-> cfg.shopify_secret,
           result |-> r])
     /\ IF ~r.ok THEN Propagate(r.exc) /\ UNCHANGED response
        ELSE IF SignatureInvalid(r)
        THEN Return(Response(401, [error |-> Const("Invalid signature")])) /\ UNCHANGED exc
        ELSE pc' = "log" /\ UNCHANGED <<response, exc>>
  /\ UNCHANGED <<environ, event, cfg, headers_lower, hmac_header, body_bytes, topic,
                 shop_domain, net, outbound, fwd, prev, args>>

\* lines 156-159: topic and shop domain, for the log only
LogTopic ==
  /\ pc = "log"
  /\ Step("log")
  /\ topic' = DictGet(headers_lower, TopicKey, Const("unknown"))
  /\ shop_domain' = DictGet(headers_lower, ShopKey, Const("unknown"))
  /\ pc' = "forward"
  /\ UNCHANGED <<environ, event, cfg, headers_lower, hmac_header, body_bytes, verify_calls,
                 net, outbound, fwd, response, exc, prev, args>>

\* lines 161-168: the call of forward_to_maistro, with its one urlopen
Forward ==
  /\ pc = "forward"
  /\ Step("forward")
  /\ \E n \in (IF prev = Unset THEN NetOutcomes ELSE {m \in NetOutcomes : prev.net = Unset \/ m = prev.net}) :
       LET r == forward_to_maistro(body_bytes, cfg.maistro_api_key, cfg.maistro_override_agent,
                                   cfg.maistro_debug, cfg.maistro_instance_id, n)
       IN /\ net' = n
          /\ outbound' = Append(outbound,
               MaistroRequest(body_bytes, cfg.maistro_api_key, cfg.maistro_override_agent,
                              cfg.maistro_debug, cfg.maistro_instance_id))
          /\ IF r.ok
             THEN fwd' = r.v /\ pc' = "respond" /\ UNCHANGED exc
             ELSE Propagate(r.exc) /\ UNCHANGED fwd
  /\ UNCHANGED <<environ, event, cfg, headers_lower, hmac_header, body_bytes, topic,
                 shop_domain, verify_calls, response, prev, args>>

\* (variant: 300 counts as a success)
ResponseFor_Upto300(status_code, response_body) ==
  IF 200 <= status_code /\ status_code <= 300
  THEN Response(200, [message |-> Const("Webhook processed successfully"),
                      maistro_status |-> status_code])
  ELSE Response(200, [message |-> Const("Webhook received but forwarding failed"),
                      maistro_status |-> status_code,
                      error |-> response_body])

\* lines 170-188: the response for the forwarder's result
ResponseFor(status_code, response_body) ==
  IF 200 <= status_code /\ status_code < 300
  THEN Response(200, [message |-> Const("Webhook processed successfully"),
                      maistro_status |-> status_code])
  ELSE Response(200, [message |-> Const("Webhook received but forwarding failed"),
                      maistro_status |-> status_code,
                      error |-> response_body])

Respond ==
  /\ pc = "respond"
  /\ Step("respond")
  /\ Return(ResponseFor(fwd[1], fwd[2]))
  /\ UNCHANGED <<environ, event, cfg, headers_lower, hmac_header, body_bytes, topic,
                 shop_domain, verify_calls, net, outbound, fwd, exc, prev, args>>

\* The sender delivers the same request again, its header names in another
\* letter-casing; the outcome of the finished invocation is kept in prev.
Outcome ==
  [event |-> event, pc |-> pc, verify_calls |-> verify_calls, net |-> net,
   outbound |-> outbound, topic |-> topic, shop_domain |-> shop_domain,
   response |-> response, exc |-> exc, trace |-> trace]

Redeliver ==
  /\ pc \in {"done", "raised"}
  /\ prev = Unset
  /\ event.headers.t = "dict"
  /\ \E flips \in SUBSET (1..Len(event.headers.v)) :
       /\ flips # {}
       /\ DistinctKeys(Recase(event.headers, flips).v)
       /\ event' = [event EXCEPT !.headers = Recase(event.headers, flips)]
  /\ prev' = Outcome
  /\ pc' = "start"
  /\ cfg' = Unset /\ headers_lower' = Unset /\ hmac_header' = Unset /\ body_bytes' = Unset
  /\ topic' = Unset /\ shop_domain' = Unset /\ verify_calls' = <<>>
  /\ net' = Unset /\ outbound' = <<>> /\ fwd' = Unset /\ response' = Unset /\ exc' = Unset
  /\ trace' = <<>>
  /\ UNCHANGED <<environ, args>>

Next ==
  \/ LoadConfig
  \/ ExtractHeaders
  \/ DecodeBody
  \/ VerifySignature
  \/ LogTopic
  \/ Forward
  \/ Respond

Spec == Init /\ [][Next]_vars

InitRedeliver ==
  /\ environ \in EnvironmentsRedeliver
  /\ event \in EventsRedeliver
  /\ Fresh
  /\ prev = Unset
  /\ args = Unset
\* A direct call verify_shopify_signature(data, hmac_header, secret)
InitVerify ==
  /\ args \in [data : Payloads, hmac_header : VerifyHeaders, secret : VerifySecrets]
  /\ environ = Unset /\ event = Unset /\ prev = Unset
  /\ Fresh

VerifyCall ==
  /\ pc = "start"
  /\ args # Unset
  /\ verify_calls' = Append(verify_calls,
       [data |-> args.data, hmac_header |-> args.hmac_header, secret |-> args.secret,
        result |-> verify_shopify_signature(args.data, args.hmac_header, args.secret)])
  /\ pc' = "done"
  /\ UNCHANGED <<environ, event, cfg, headers_lower, hmac_header, body_bytes, topic,
                 shop_domain, net, outbound, fwd, response, exc, trace, prev, args>>

NextVerify == VerifyCall
SpecVerify == InitVerify /\ [][NextVerify]_vars

NextRedeliver == Next \/ Redeliver
SpecRedeliver == InitRedeliver /\ [][NextRedeliver]_vars

(* ------------------------------------------------------------------ *)
(* Properties                                                          *)
(* ------------------------------------------------------------------ *)
Terminal == pc \in {"done", "raised"}
Occurrences(seq, x) == Cardinality({i \in 1..Len(seq) : seq[i] = x})
Before(seq, x, y) == \E i, j \in 1..Len(seq) : i < j /\ seq[i] = x /\ seq[j] = y
ConnectivityBody == JsonDumps([error |-> Const("Failed to connect to Maistro API")])

\* C1: when the signature header is present and verify_shopify_signature
\* returns false, the invocation ends with status 401 and the body
\* {error: "Invalid signature"}, and no outbound call is made at any step.
C1_InvalidSignatureRejected ==
  (\E i \in 1..Len(verify_calls) : ~verify_calls[i].result.v) =>
    /\ Truthy(hmac_header)
    /\ pc = "done"
    /\ response = Response(401, [error |-> Const("Invalid signature")])
    /\ outbound = <<>> /\ net = Unset /\ fwd = Unset
    /\ Occurrences(trace, "forward") = 0

\* the digest was computed with another secret
C1_Witness ==
  /\ pc = "done"
  /\ Len(verify_calls) = 1
  /\ ~verify_calls[1].result.v
  /\ verify_calls[1].secret = Secret1
  /\ StrEq(verify_calls[1].hmac_header, DigestStr(Secret2, verify_calls[1].data))
  /\ response.statusCode = 401

\* C2: if a required configuration value (secret, API key or instance id) is
\* absent from the environment, the invocation ends with status 500 and the
\* body {error: "Configuration error"} before any header lookup, verification
\* or outbound call, whatever the event.
C2_MissingConfigRejected ==
  (/\ environ # Unset
   /\ \/ environ.SHOPIFY_SECRET.t = "absent"
      \/ environ.MAISTRO_API_KEY.t = "absent"
      \/ environ.MAISTRO_INSTANCE_ID.t = "absent") =>
    /\ pc = "done"
    /\ response = Response(500, [error |-> Const("Configuration error")])
    /\ trace = <<"config">>
    /\ headers_lower = Unset /\ verify_calls = <<>> /\ outbound = <<>>

\* C3: every invocation ends by returning a response with a status code and a
\* JSON body; no exception leaves lambda_handler.
C3_AlwaysResponds ==
  Terminal =>
    /\ pc = "done"
    /\ exc = Unset
    /\ response # Unset
    /\ response.statusCode \in {200, 401, 500}
    /\ response.body.k = "json"

\* C4: once the forwarder has returned (s, b), the response has status 200;
\* for 200 <= s < 300 its body is the success message with maistro_status = s
\* and no error field, for every other s it is the failure message with
\* maistro_status = s and error = b.
C4_ForwardResultAbsorbed ==
  fwd # Unset =>
    /\ pc \in {"respond", "done"}
    /\ exc = Unset
    /\ pc = "done" =>
         /\ response.statusCode = 200
         /\ response.body.k = "json"
         /\ response.body.v.maistro_status = fwd[1]
         /\ IF 200 <= fwd[1] /\ fwd[1] < 300
            THEN /\ DOMAIN response.body.v = {"message", "maistro_status"}
                 /\ response.body.v.message = Const("Webhook processed successfully")
            ELSE /\ DOMAIN response.body.v = {"message", "maistro_status", "error"}
                 /\ response.body.v.message = Const("Webhook received but forwarding failed")
                 /\ StrEq(response.body.v.error, fwd[2])

\* the downstream answered 503 with a body
C4_Witness ==
  /\ pc = "done"
  /\ fwd # Unset
  /\ fwd[1] = 503
  /\ response.statusCode = 200
  /\ StrEq(response.body.v.error, DownText)

\* C5: with the configuration present, an event whose header mapping holds no
\* signature header under any letter-casing gets status 401 and the body
\* {error: "Missing signature header"} whatever its body and its base64 flag,
\* and neither the verifier nor the forwarder is invoked.
NoSignatureHeader(ev) ==
  \/ ev.headers.t = "absent"
  \/ /\ ev.headers.t = "dict"
     /\ \A i \in 1..Len(ev.headers.v) : ~StrEq(Lower(ev.headers.v[i][1]), SigKey)

C5_MissingSignatureHeader ==
  (/\ cfg # Unset
   /\ ~ConfigMissing(cfg)
   /\ pc # "headers"
   /\ NoSignatureHeader(event)) =>
    /\ pc = "done"
    /\ response = Response(401, [error |-> Const("Missing signature header")])
    /\ verify_calls = <<>> /\ outbound = <<>>
    /\ trace = <<"config", "headers">>

\* the body cannot be decoded
C5_Witness ==
  /\ pc = "done"
  /\ cfg # Unset
  /\ ~ConfigMissing(cfg)
  /\ NoSignatureHeader(event)
  /\ event.headers.t = "dict"
  /\ Len(event.headers.v) > 0
  /\ ~DecodeOf(event).ok
  /\ response.statusCode = 401

\* C6: verify_shopify_signature(P, D, S) never raises, and returns true
\* exactly when D is the base64 text of HMAC-SHA256 with key S over P.
C6_VerifyIffCorrectDigest ==
  \A i \in 1..Len(verify_calls) :
    LET c == verify_calls[i]
        key == Utf8Encode(c.secret)
        correct ==
          /\ key.ok
          /\ IsStr(c.hmac_header)
          /\ c.hmac_header.k = "b64"
          /\ c.hmac_header.v = HmacSha256(key.v, c.data)
    IN /\ c.result.ok
       /\ c.result.v <=> correct

\* a direct call with the correct digest of a payload
C6_Witness ==
  /\ args # Unset
  /\ pc = "done"
  /\ args.secret = Secret2
  /\ args.data = <<195, 169>>
  /\ IsStr(args.hmac_header)
  /\ StrEq(args.hmac_header, DigestStr(Secret2, <<195, 169>>))
  /\ verify_calls[1].result = Ok(TRUE)

\* C7: forward_to_maistro makes one outbound attempt and returns a
\* (status, body) pair for every downstream outcome; it never raises.
C7_ForwarderNeverRaises ==
  net # Unset =>
    /\ Len(outbound) = 1
    /\ fwd # Unset
    /\ exc = Unset

\* C8: a timeout of the outbound call, while connecting or while reading the
\* response, makes forward_to_maistro return 502 with the connectivity-failure
\* body, and lambda_handler respond 200 with maistro_status 502.
TimedOut(n) ==
  \/ n.kind = "url_error" /\ n.why = "connect_timeout"
  \/ n.kind = "os_error" /\ n.why = "response_timeout"
  \/ n.kind \in {"response", "http_error"} /\ n.fp /\ n.read = "timeout"

C8_TimeoutIsConnectivityFailure ==
  (net # Unset /\ TimedOut(net)) =>
    /\ fwd # Unset
    /\ fwd[1] = 502
    /\ fwd[2] = ConnectivityBody
    /\ pc = "done" =>
         /\ response.statusCode = 200
         /\ response.body.v.maistro_status = 502
         /\ response.body.v.error = ConnectivityBody

\* C9: the bytes of the outbound request are the bytes the signature was
\* verified over, and those are the inbound body decoded once, before the
\* verification: base64-decoded when the flag is set, UTF-8 encoded otherwise.
DecodedOnce(ev, bytes) ==
  LET body == IF ev.body.t = "absent" THEN Chars(<<>>) ELSE ev.body
      flag == ev.isBase64Encoded.t = "bool" /\ ev.isBase64Encoded.v
      r == IF flag THEN B64Decode(body) ELSE Utf8Encode(body)
  IN r.ok /\ bytes = r.v

C9_PayloadForwardedUnchanged ==
  /\ verify_calls # <<>> =>
       /\ Len(verify_calls) = 1
       /\ DecodedOnce(event, verify_calls[1].data)
       /\ Occurrences(trace, "decode") = 1
       /\ Before(trace, "decode", "verify")
  /\ outbound # <<>> =>
       /\ Len(outbound) = 1
       /\ Len(verify_calls) = 1
       /\ verify_calls[1].result.v
       /\ outbound[1].data = verify_calls[1].data
       /\ DecodedOnce(event, outbound[1].data)
       /\ Before(trace, "verify", "forward")

\* a base64-framed body with a character outside the alphabet was forwarded
C9_Witness ==
  /\ outbound # <<>>
  /\ event.isBase64Encoded = Bool(TRUE)
  /\ event.body = Chars(<<"Q", "!", "Q", "=", "=">>)
  /\ outbound[1].data = PayloadA

\* C10: two events that differ only in the letter-casing of their header
\* names get the same verification outcome, the same outbound call or none,
\* the same logged topic and shop domain, and the same response.
C10_HeaderCaseInsensitive ==
  (/\ prev # Unset
   /\ Terminal
   /\ SameUpToCase(prev.event.headers, event.headers)
   /\ prev.event.body = event.body
   /\ prev.event.isBase64Encoded = event.isBase64Encoded) =>
    /\ pc = prev.pc
    /\ verify_calls = prev.verify_calls
    /\ outbound = prev.outbound
    /\ topic = prev.topic
    /\ shop_domain = prev.shop_domain
    /\ response = prev.response
    /\ exc = prev.exc

\* the signature arrived under the other casing and both deliveries were forwarded
C10_Witness ==
  /\ prev # Unset
  /\ pc = "done"
  /\ event.headers # prev.event.headers
  /\ SameUpToCase(prev.event.headers, event.headers)
  /\ HasKey(event.headers.v, Chars(SigTitle))
  /\ ~HasKey(prev.event.headers.v, Chars(SigTitle))
  /\ outbound # <<>>
  /\ prev.outbound # <<>>
  /\ response.statusCode = 200
====
